---------------------------- MODULE Spec2Model ----------------------------
(***************************************************************************)
(* Node session orchestrator of bless-net.  The repository holds three     *)
(* versions of the same script, modelled side by side and selected by the  *)
(* variable `variant`:                                                     *)
(*   "retry"  src/unnamed/part_000  (retryFetch, sequential for loop)      *)
(*   "proc"   src/unnamed/part_001  (processNode per node, global          *)
(*                                   uncaughtException handler)            *)
(*   "plain"  src/bless.js          (one attempt per node, sequential)     *)
(* A step of the model is one callback of the single-threaded runtime: the *)
(* arrival of an HTTP response, the expiry of a timer, or the completion   *)
(* of the setup phase, together with everything the code runs before it    *)
(* yields again.                                                           *)
(***************************************************************************)
EXTENDS Naturals, FiniteSets, Sequences, Bags, TLC

\* ------------------------------------------------------------- bounds
MaxFails == 4
MaxRestarts == 1
MaxInFlight == 2
MaxAttempts == 6
MaxRetriesArg == 4
MaxRejected == 2

\* --------------------------------------------------- program constants
DefaultRetries == 3
DefaultDelay == 1000
RecoveryDelay == 5000

\* id.txt holds two entries: node 1 ("A") comes before node 2 ("B").
Nodes == {1, 2}
NumNodes == Cardinality(Nodes)
Variants == {"retry", "proc", "plain"}

\* The addresses fetchIpAddress can hand to runAll.  The orchestrator never
\* looks into them; FirstAnswer names the one the first runAll obtained.
IpAnswers == {"ip1", "ip2"}
FirstAnswer == "ip1"

\* What one HTTP exchange can produce: the fetch promise rejects (network
\* error, timeout), or a response arrives whose status is 2xx or not and
\* whose body parses as JSON or not.
Outcomes ==
    {"neterr", "err_json", "err_text", "ok_json", "ok_json_off", "ok_text"}

FetchRejects(o) == o = "neterr"
ResponseOk(o) == o \in {"ok_json", "ok_json_off", "ok_text"}
JsonParses(o) == o \in {"ok_json", "ok_json_off", "err_json"}

\* The body of a ping response carries isB7SConnected: true in "ok_json",
\* false in "ok_json_off".
IsB7SConnected(o) == o = "ok_json"

VARIABLES
    variant,    \* which version of the script runs
    valid,      \* valid[n]: entry n of id.txt has a nodeId and a hardwareId
    alive,      \* the process is running
    setups,     \* runAll invocations that are in their setup phase
    cursor,     \* sequential versions: index of the for loop over ids
    lcs,        \* lcs[n]: bag of the lifecycle passes in progress for node n
    sched,      \* sched[n]: number of setInterval schedules created for n
    hbs,        \* hbs[n]: bag of the periodic pings in flight for node n
    fails,      \* failing exchanges so far (bounded by MaxFails)
    restarts,   \* runs of the uncaughtException handler (bounded)
    h,          \* history: what was requested, what succeeded, what was logged
    rf,         \* one retryFetch call on its own (specification SpecRF)
    ipr         \* one fetchIpAddress call on its own (specification SpecIP)

vars == <<variant, valid, alive, setups, cursor, lcs, sched, hbs, fails,
          restarts, h, rf, ipr>>

\* ------------------------------------------------------------ retryFetch
\* Mutant: the catch block forgets infiniteRetry.
retryFetchThrows_ignoresInfinite(infiniteRetry, retries) == retries = 0

\* The catch block of retryFetch: rethrow or retry.
retryFetchThrows(infiniteRetry, retries) == ~infiniteRetry /\ retries = 0

\* Mutant: the retry counter is never counted down.
retryFetchRetries_kept(infiniteRetry, retries) == retries

\* The last line of the catch block: retries after the wait.
retryFetchRetries(infiniteRetry, retries) ==
    IF infiniteRetry THEN retries ELSE retries - 1

\* An attempt of retryFetch succeeds when fetch resolves and response.ok.
attemptOk(o) == ~FetchRejects(o) /\ ResponseOk(o)

\* A direct fetch followed by response.json(), as part_001 and bless.js do
\* it: no look at the status, only the rejected fetch and the body matter.
directOk(o) == ~FetchRejects(o) /\ JsonParses(o)


\* Mutant: a response that reports the node as not connected is an error.
CallResult_disconnectedRaises(c, o) ==
    IF JsonParses(o) /\ ResponseOk(o) /\ ~IsB7SConnected(o)
    THEN "raise"
    ELSE IF variant = "retry"
    THEN IF attemptOk(o)
         THEN (IF JsonParses(o) THEN "ok" ELSE "raise")
         ELSE (IF retryFetchThrows(c.inf, c.retries) THEN "raise" ELSE "retry")
    ELSE IF directOk(o) THEN "ok" ELSE "raise"

\* What the code does with the outcome o of the exchange that call c waits
\* for: "ok" (the awaited expression yields a parsed body), "retry"
\* (retryFetch logs and waits before another attempt) or "raise" (an error
\* leaves the awaited expression).
CallResult(c, o) ==
    IF variant = "retry"
    THEN IF attemptOk(o)
         THEN (IF JsonParses(o) THEN "ok" ELSE "raise")
         ELSE (IF retryFetchThrows(c.inf, c.retries) THEN "raise" ELSE "retry")
    ELSE IF directOk(o) THEN "ok" ELSE "raise"

\* ----------------------------------------------------- calls in progress
\* Mutant: a pass opens with the start-session request.
registerCall_sessionFirst ==
    [pc |-> "session", inf |-> (variant = "retry"),
     retries |-> (IF variant = "retry" THEN DefaultRetries ELSE 0), timer |-> 0,
     ip |-> FirstAnswer]

\* A call in progress: the step of the lifecycle it belongs to, the
\* retryFetch arguments it was made with, the timer it waits on (0: the
\* request is in flight), and the ipAddress its pass was given.
registerCall ==
    [pc |-> "register", inf |-> (variant = "retry"),
     retries |-> (IF variant = "retry" THEN DefaultRetries ELSE 0), timer |-> 0,
     ip |-> FirstAnswer]

\* pingNode: retryFetch with its default arguments (part_000), a bare fetch
\* otherwise.
pingCall ==
    [pc |-> "ping", inf |-> FALSE,
     retries |-> (IF variant = "retry" THEN DefaultRetries ELSE 0), timer |-> 0,
     ip |-> FirstAnswer]

\* Mutant: the pass goes from registration straight to the initial ping.
startSessionCall_skipped == pingCall

startSessionCall ==
    [pc |-> "session", inf |-> (variant = "retry"),
     retries |-> (IF variant = "retry" THEN DefaultRetries ELSE 0), timer |-> 0,
     ip |-> FirstAnswer]

recoveryWait ==
    [pc |-> "recover", inf |-> FALSE, retries |-> 0, timer |-> RecoveryDelay,
     ip |-> FirstAnswer]

\* The call as made by a pass that was given the address ip.
WithIp(call, ip) == [call EXCEPT !.ip = ip]

Add(b, e) == b (+) SetToBag({e})
Remove(b, e) == b (-) SetToBag({e})
Replace(b, e, f) == Add(Remove(b, e), f)

Sequential == variant \in {"retry", "plain"}

\* Mutant: the loop starts over at the head of the list.
NextValid_fromStart(i) ==
    IF \E j \in 1..NumNodes : valid[j]
    THEN CHOOSE j \in 1..NumNodes : valid[j] /\ \A k \in 1..(j - 1) : ~valid[k]
    ELSE NumNodes + 1

\* The for loop of the sequential versions: the first entry at or after i
\* that passes the check on nodeId and hardwareId (NumNodes + 1: none).
NextValid(i) ==
    IF \E j \in i..NumNodes : valid[j]
    THEN CHOOSE j \in i..NumNodes : valid[j] /\ \A k \in i..(j - 1) : ~valid[k]
    ELSE NumNodes + 1

\* ---------------------------------------------------------------- history
\* A registration attempt of node n failed and the code logged it: the
\* "Retrying request" line of retryFetch or the line of the catch block.
RegisterFailed(hh, n) ==
    [hh EXCEPT !.regFail[n] = @ + 1, !.regLog[n] = @ + 1]
\* A registration request for node n, carrying the address ip, was sent.
SentRegister(hh, n, ip) ==
    [hh EXCEPT !.regReq[n] = @ + 1, !.regIps = @ \cup {ip}]
\* A recovery loop (the while (true) of processNode or of runAll, the try
\* of bless.js) was entered for node n.
LoopStarted(hh, n) == [hh EXCEPT !.loops[n] = @ + 1]
SentRegisterAll(hh, ip) ==
    [hh EXCEPT !.regReq = [n \in Nodes |-> @[n] + 1], !.regIps = @ \cup {ip},
               !.loops = [n \in Nodes |-> @[n] + 1]]
SentRegisterAt(hh, c) ==
    IF c \in Nodes
    THEN SentRegister(LoopStarted(hh, c), c, FirstAnswer)
    ELSE hh

\* pingNode returned with the body of outcome o, called by `by` (the pass
\* for its initial ping, or the timer): what it logs about isB7SConnected.
\* part_000 logs when the flag is true, bless.js logs either way, part_001
\* does not read the flag.
pingNodeLogs(hh, o, by) ==
    IF variant = "plain" \/ (variant = "retry" /\ IsB7SConnected(o))
    THEN [hh EXCEPT !.connLog = [by |-> by, connected |-> IsB7SConnected(o)]]
    ELSE hh

\* The budget of failing exchanges that keeps the counters finite.
Budget(o) == (ResponseOk(o) /\ JsonParses(o)) \/ fails < MaxFails
Spend(o) == IF ResponseOk(o) /\ JsonParses(o) THEN fails ELSE fails + 1

\* Mutant: no break after setInterval, the while loop runs the node again.
LoopOn_noBreak(n) ==
    LET c == IF n \in Nodes THEN n ELSE NextValid(n + 1) IN
    /\ cursor' = c
    /\ lcs' = [m \in Nodes |->
                 IF m = c THEN SetToBag({registerCall}) ELSE EmptyBag]

\* The sequential loop leaves node n and starts the pass of the next valid
\* entry, if there is one.
LoopOn(n) ==
    LET c == NextValid(n + 1) IN
    /\ cursor' = c
    /\ lcs' = [m \in Nodes |->
                 IF m = c THEN SetToBag({registerCall}) ELSE EmptyBag]

\* The id lists tried: every entry complete, or the first entry lacking its
\* nodeId or hardwareId.
IdLists ==
    {[n \in Nodes |-> TRUE], [n \in Nodes |-> n # 1]}

\* ------------------------------------------------------------------ runAll
Init ==
    /\ variant \in Variants
    /\ valid \in IdLists
    /\ alive = TRUE
    /\ setups = 1
    /\ cursor = 0
    /\ lcs = [n \in Nodes |-> EmptyBag]
    /\ sched = [n \in Nodes |-> 0]
    /\ hbs = [n \in Nodes |-> EmptyBag]
    /\ fails = 0
    /\ restarts = 0
    /\ h = [regReq |-> [n \in Nodes |-> 0],
            regFail |-> [n \in Nodes |-> 0],
            regOk |-> [n \in Nodes |-> FALSE],
            sessOk |-> [n \in Nodes |-> FALSE],
            pingOk |-> [n \in Nodes |-> FALSE],
            regLog |-> [n \in Nodes |-> 0],
            regIps |-> {},
            loops |-> [n \in Nodes |-> 0],
            connLog |-> [by |-> "none", connected |-> FALSE]]
    /\ rf = [st |-> "idle"]
    /\ ipr = [st |-> "idle"]

\* Setup (files, id list, IP) completes and the loop over ids starts.
\* part_001 calls processNode for every entry without awaiting it; the
\* other two versions enter the pass of the first valid entry.  A runAll
\* started by the uncaughtException handler has asked for the address again.
runAllSetupOk ==
    /\ alive /\ setups > 0
    /\ setups' = setups - 1
    /\ IF variant = "proc"
       THEN /\ \E ip \in (IF restarts = 0 THEN {FirstAnswer} ELSE IpAnswers) :
                  /\ lcs' = [n \in Nodes |->
                               Add(lcs[n], WithIp(registerCall, ip))]
                  /\ h' = SentRegisterAll(h, ip)
            /\ UNCHANGED cursor
       ELSE /\ LoopOn(0)
            /\ h' = SentRegisterAt(h, NextValid(1))
    /\ UNCHANGED <<variant, valid, alive, sched, hbs, fails, restarts, rf, ipr>>

\* Setup raises.  part_001 catches and logs inside runAll; in the other
\* versions the promise of runAll() rejects with nobody handling it, which
\* ends the process on runtimes that raise unhandled rejections and is a
\* warning on the ones that do not.
runAllSetupFail ==
    /\ alive /\ setups > 0
    /\ setups' = setups - 1
    /\ \/ /\ variant = "proc"
          /\ UNCHANGED alive
       \/ /\ Sequential
          /\ alive' \in BOOLEAN
    /\ UNCHANGED <<variant, valid, cursor, lcs, sched, hbs, fails, restarts,
                   h, rf, ipr>>

\* ------------------------------------------------------- lifecycle passes
\* retryFetch caught a failed attempt and retries: log, then wait `delay`.
PassRetries(n, c) ==
    /\ lcs' = [lcs EXCEPT ![n] = Replace(@, c, [c EXCEPT !.timer = DefaultDelay])]
    /\ UNCHANGED <<cursor, sched>>

\* Mutant: the catch block gives the node up.
PassRaises_abandons(n, c, hh) ==
    /\ lcs' = [lcs EXCEPT ![n] = Remove(@, c)]
    /\ h' = hh
    /\ UNCHANGED <<cursor, sched>>

\* An error reaches the catch block around the pass.
PassRaises(n, c, hh) ==
    \/ /\ variant = "retry"
       /\ lcs' = [lcs EXCEPT ![n] = Replace(@, c, WithIp(recoveryWait, c.ip))]
       /\ h' = hh
       /\ UNCHANGED <<cursor, sched>>
    \/ /\ variant = "proc"
       /\ lcs' = [lcs EXCEPT ![n] = Replace(@, c, WithIp(registerCall, c.ip))]
       /\ h' = SentRegister(hh, n, c.ip)
       /\ UNCHANGED <<cursor, sched>>
    \/ /\ variant = "plain"
       /\ LoopOn(n)
       /\ h' = SentRegisterAt(hh, NextValid(n + 1))
       /\ UNCHANGED sched

registerResponse(n, c, o) ==
    /\ alive /\ BagIn(c, lcs[n]) /\ c.pc = "register" /\ c.timer = 0
    /\ Budget(o) /\ fails' = Spend(o)
    /\ \/ /\ CallResult(c, o) = "ok"
          /\ lcs' = [lcs EXCEPT ![n] =
                       Replace(@, c, WithIp(startSessionCall, c.ip))]
          /\ h' = [h EXCEPT !.regOk[n] = TRUE]
          /\ UNCHANGED <<cursor, sched>>
       \/ /\ CallResult(c, o) = "retry"
          /\ PassRetries(n, c)
          /\ h' = RegisterFailed(h, n)
       \/ /\ CallResult(c, o) = "raise"
          /\ PassRaises(n, c, RegisterFailed(h, n))
    /\ UNCHANGED <<variant, valid, alive, setups, hbs, restarts, rf, ipr>>

startSessionResponse(n, c, o) ==
    /\ alive /\ BagIn(c, lcs[n]) /\ c.pc = "session" /\ c.timer = 0
    /\ Budget(o) /\ fails' = Spend(o)
    /\ \/ /\ CallResult(c, o) = "ok"
          /\ lcs' = [lcs EXCEPT ![n] = Replace(@, c, WithIp(pingCall, c.ip))]
          /\ h' = [h EXCEPT !.sessOk[n] = TRUE]
          /\ UNCHANGED <<cursor, sched>>
       \/ /\ CallResult(c, o) = "retry"
          /\ PassRetries(n, c)
          /\ UNCHANGED h
       \/ /\ CallResult(c, o) = "raise"
          /\ PassRaises(n, c, h)
    /\ UNCHANGED <<variant, valid, alive, setups, hbs, restarts, rf, ipr>>

\* The initial ping.  On success the pass calls setInterval and breaks out
\* of its loop; the sequential versions go on to the next entry.
initialPingResponse(n, c, o) ==
    /\ alive /\ BagIn(c, lcs[n]) /\ c.pc = "ping" /\ c.timer = 0
    /\ Budget(o) /\ fails' = Spend(o)
    /\ \/ /\ CallResult(c, o) = "ok"
          /\ sched' = [sched EXCEPT ![n] = @ + 1]
          /\ IF Sequential
             THEN /\ LoopOn(n)
                  /\ h' = SentRegisterAt(
                             pingNodeLogs([h EXCEPT !.pingOk[n] = TRUE],
                                          o, "pass"),
                             NextValid(n + 1))
             ELSE /\ lcs' = [lcs EXCEPT ![n] = Remove(@, c)]
                  /\ h' = pingNodeLogs([h EXCEPT !.pingOk[n] = TRUE], o, "pass")
                  /\ UNCHANGED cursor
       \/ /\ CallResult(c, o) = "retry"
          /\ PassRetries(n, c)
          /\ UNCHANGED h
       \/ /\ CallResult(c, o) = "raise"
          /\ PassRaises(n, c, h)
    /\ UNCHANGED <<variant, valid, alive, setups, hbs, restarts, rf, ipr>>

\* The delay of retryFetch has passed: count the retry down and fetch again.
retryDelayElapsed(n, c) ==
    /\ alive /\ BagIn(c, lcs[n]) /\ c.timer = DefaultDelay
    /\ lcs' = [lcs EXCEPT ![n] =
                 Replace(@, c, [c EXCEPT !.timer = 0,
                                !.retries = retryFetchRetries(c.inf, c.retries)])]
    /\ UNCHANGED <<variant, valid, alive, setups, cursor, sched, hbs, fails,
                   restarts, h, rf, ipr>>

\* The recovery delay of part_000 has passed: the while loop starts the
\* next pass with a new registration.
recoveryDelayElapsed(n, c) ==
    /\ alive /\ BagIn(c, lcs[n]) /\ c.pc = "recover" /\ c.timer = RecoveryDelay
    /\ lcs' = [lcs EXCEPT ![n] = Replace(@, c, WithIp(registerCall, c.ip))]
    /\ h' = SentRegister(h, n, c.ip)
    /\ UNCHANGED <<variant, valid, alive, setups, cursor, sched, hbs, fails,
                   restarts, rf, ipr>>

\* ------------------------------------------------------------- heartbeats
InFlight ==
    LET RECURSIVE Sum(_)
        Sum(S) == IF S = {} THEN 0
                  ELSE LET n == CHOOSE x \in S : TRUE
                       IN BagCardinality(hbs[n]) + Sum(S \ {n})
    IN Sum(Nodes)

\* Mutant: a firing is skipped while an earlier ping of the node is pending.
heartbeatTimer_skipsWhileBusy(n) ==
    /\ alive /\ sched[n] > 0
    /\ InFlight < MaxInFlight
    /\ hbs[n] = EmptyBag
    /\ hbs' = [hbs EXCEPT ![n] = Add(@, pingCall)]
    /\ UNCHANGED <<variant, valid, alive, setups, cursor, lcs, sched, fails,
                   restarts, h, rf, ipr>>

\* A setInterval schedule of node n fires and pingNode sends its request.
heartbeatTimer(n) ==
    /\ alive /\ sched[n] > 0
    /\ InFlight < MaxInFlight
    /\ hbs' = [hbs EXCEPT ![n] = Add(@, pingCall)]
    /\ UNCHANGED <<variant, valid, alive, setups, cursor, lcs, sched, fails,
                   restarts, h, rf, ipr>>

\* The promise of a timer callback rejected.  Nothing awaits it: the
\* runtime either warns (older runtimes) or raises it as an uncaught
\* exception, which part_001 handles by calling runAll(false) and which
\* ends the process in the versions without a handler.
UnhandledRejection ==
    \/ UNCHANGED <<alive, setups, restarts>>
    \/ /\ variant = "proc"
       /\ restarts < MaxRestarts
       /\ restarts' = restarts + 1
       /\ setups' = setups + 1
       /\ UNCHANGED alive
    \/ /\ Sequential
       /\ alive' = FALSE
       /\ UNCHANGED <<setups, restarts>>

heartbeatResponse(n, c, o) ==
    /\ alive /\ BagIn(c, hbs[n]) /\ c.timer = 0
    /\ Budget(o) /\ fails' = Spend(o)
    /\ \/ /\ CallResult(c, o) = "ok"
          /\ hbs' = [hbs EXCEPT ![n] = Remove(@, c)]
          /\ h' = pingNodeLogs(h, o, "timer")
          /\ UNCHANGED <<alive, setups, restarts>>
       \/ /\ CallResult(c, o) = "retry"
          /\ hbs' = [hbs EXCEPT ![n] = Replace(@, c, [c EXCEPT !.timer = DefaultDelay])]
          /\ UNCHANGED <<alive, setups, restarts, h>>
       \/ /\ CallResult(c, o) = "raise"
          /\ hbs' = [hbs EXCEPT ![n] = Remove(@, c)]
          /\ UnhandledRejection
          /\ UNCHANGED h
    /\ UNCHANGED <<variant, valid, cursor, lcs, sched, rf, ipr>>

heartbeatRetryDelayElapsed(n, c) ==
    /\ alive /\ BagIn(c, hbs[n]) /\ c.timer = DefaultDelay
    /\ hbs' = [hbs EXCEPT ![n] =
                 Replace(@, c, [c EXCEPT !.timer = 0,
                                !.retries = retryFetchRetries(c.inf, c.retries)])]
    /\ UNCHANGED <<variant, valid, alive, setups, cursor, lcs, sched, fails,
                   restarts, h, rf, ipr>>

Next ==
    \/ runAllSetupOk
    \/ runAllSetupFail
    \/ \E n \in Nodes : \E c \in BagToSet(lcs[n]), o \in Outcomes : registerResponse(n, c, o)
    \/ \E n \in Nodes : \E c \in BagToSet(lcs[n]), o \in Outcomes : startSessionResponse(n, c, o)
    \/ \E n \in Nodes : \E c \in BagToSet(lcs[n]), o \in Outcomes : initialPingResponse(n, c, o)
    \/ \E n \in Nodes : \E c \in BagToSet(lcs[n]) : retryDelayElapsed(n, c)
    \/ \E n \in Nodes : \E c \in BagToSet(lcs[n]) : recoveryDelayElapsed(n, c)
    \/ \E n \in Nodes : heartbeatTimer(n)
    \/ \E n \in Nodes : \E c \in BagToSet(hbs[n]), o \in Outcomes : heartbeatResponse(n, c, o)
    \/ \E n \in Nodes : \E c \in BagToSet(hbs[n]) : heartbeatRetryDelayElapsed(n, c)

Spec == Init /\ [][Next]_vars

\* ------------------------------------------- retryFetch, called on its own
\* One call retryFetch(url, options, infiniteRetry, retries): rf.max is the
\* argument `retries`, rf.retries the local it counts down, rf.attempts the
\* fetches sent, rf.failed the attempts that failed, rf.last the outcome of
\* the latest attempt.
InitRF ==
    /\ variant = "retry"
    /\ valid = [n \in Nodes |-> TRUE]
    /\ alive = TRUE
    /\ setups = 0
    /\ cursor = 0
    /\ lcs = [n \in Nodes |-> EmptyBag]
    /\ sched = [n \in Nodes |-> 0]
    /\ hbs = [n \in Nodes |-> EmptyBag]
    /\ fails = 0
    /\ restarts = 0
    /\ h = [regReq |-> [n \in Nodes |-> 0],
            regFail |-> [n \in Nodes |-> 0],
            regOk |-> [n \in Nodes |-> FALSE],
            sessOk |-> [n \in Nodes |-> FALSE],
            pingOk |-> [n \in Nodes |-> FALSE],
            regLog |-> [n \in Nodes |-> 0],
            regIps |-> {},
            loops |-> [n \in Nodes |-> 0],
            connLog |-> [by |-> "none", connected |-> FALSE]]
    /\ rf \in {[st |-> "fetching", inf |-> i, max |-> m, retries |-> m,
                attempts |-> 1, failed |-> 0, last |-> "none"] :
                 i \in BOOLEAN, m \in 0..MaxRetriesArg}
    /\ ipr = [st |-> "idle"]

mainVars == <<variant, valid, alive, setups, cursor, lcs, sched, hbs, fails,
              restarts, h>>

\* The awaited fetch resolves with response.ok: return response.
rfReturns(o) ==
    /\ rf.st = "fetching" /\ attemptOk(o)
    /\ rf' = [rf EXCEPT !.st = "returned", !.last = o]
    /\ UNCHANGED <<mainVars, ipr>>

\* The attempt fails and the catch block rethrows the error.
rfThrows(o) ==
    /\ rf.st = "fetching" /\ ~attemptOk(o)
    /\ retryFetchThrows(rf.inf, rf.retries)
    /\ rf' = [rf EXCEPT !.st = "thrown", !.last = o, !.failed = @ + 1]
    /\ UNCHANGED <<mainVars, ipr>>

\* The attempt fails and the catch block logs and waits `delay`.
rfWaits(o) ==
    /\ rf.st = "fetching" /\ ~attemptOk(o)
    /\ ~retryFetchThrows(rf.inf, rf.retries)
    /\ rf' = [rf EXCEPT !.st = "waiting", !.last = o, !.failed = @ + 1]
    /\ UNCHANGED <<mainVars, ipr>>

\* The delay has passed: retries is updated and the loop fetches again.
rfDelayElapsed ==
    /\ rf.st = "waiting" /\ rf.attempts < MaxAttempts
    /\ rf' = [rf EXCEPT !.st = "fetching",
                        !.retries = retryFetchRetries(rf.inf, rf.retries),
                        !.attempts = @ + 1]
    /\ UNCHANGED <<mainVars, ipr>>

NextRF ==
    \/ \E o \in Outcomes : rfReturns(o)
    \/ \E o \in Outcomes : rfThrows(o)
    \/ \E o \in Outcomes : rfWaits(o)
    \/ rfDelayElapsed

SpecRF == InitRF /\ [][NextRF]_vars

\* --------------------------------------- fetchIpAddress, called on its own
\* A string is a sequence of one-character strings.
Digits == <<"0", "1", "2", "3", "4", "5", "6", "7", "8", "9">>
IsDigit(ch) == \E i \in 1..Len(Digits) : Digits[i] = ch
DigitVal(ch) == (CHOOSE i \in 1..Len(Digits) : Digits[i] = ch) - 1
InRange(ch, lo, hi) == IsDigit(ch) /\ DigitVal(ch) >= lo /\ DigitVal(ch) <= hi

\* Mutant: the group is relaxed to [0-9]{1,3}.
OctetMatches_anyDigits(t) ==
    Len(t) \in 1..3 /\ \A i \in 1..Len(t) : IsDigit(t[i])

\* One group of ipRegex: 25[0-5] | 2[0-4][0-9] | [01]?[0-9][0-9]?
OctetMatches(t) ==
    \/ Len(t) = 3 /\ t[1] = "2" /\ t[2] = "5" /\ InRange(t[3], 0, 5)
    \/ Len(t) = 3 /\ t[1] = "2" /\ InRange(t[2], 0, 4) /\ IsDigit(t[3])
    \/ Len(t) = 3 /\ InRange(t[1], 0, 1) /\ IsDigit(t[2]) /\ IsDigit(t[3])
    \/ Len(t) = 2 /\ IsDigit(t[1]) /\ IsDigit(t[2])
    \/ Len(t) = 1 /\ IsDigit(t[1])

\* The positions at which a group that starts at position i of s can end
\* (one past its last character).
OctetEnds(s, i) ==
    {j \in (i + 1)..(Len(s) + 1) : OctetMatches(SubSeq(s, i, j - 1))}

\* ipRegex.test(ip): ^group\.group\.group\.group$
isValidIP(ip) ==
    \E a \in OctetEnds(ip, 1) :
        /\ a <= Len(ip) /\ ip[a] = "."
        /\ \E b \in OctetEnds(ip, a + 1) :
              /\ b <= Len(ip) /\ ip[b] = "."
              /\ \E c \in OctetEnds(ip, b + 1) :
                    /\ c <= Len(ip) /\ ip[c] = "."
                    /\ (Len(ip) + 1) \in OctetEnds(ip, c + 1)

\* What the user may type at "Enter your IP address": up to four fields
\* joined by dots, the fields taken from IpFields.
IpFields ==
    {<<"1">>, <<"2", "5", "5">>, <<"2", "5", "6">>, <<"9", "9", "9">>,
     <<"0", "1", "9">>, <<"2", "4", "9">>, <<"a", "b", "c">>, <<>>}

Join(fs) ==
    LET RECURSIVE J(_)
        J(k) == IF k = 1 THEN fs[1] ELSE J(k - 1) \o <<".">> \o fs[k]
    IN J(Len(fs))

ManualEntries ==
    {Join(fs) : fs \in UNION {[1..k -> IpFields] : k \in {1, 3, 4}}}
    \cup {Join(<<f, f, f, f, f>>) : f \in IpFields}

\* What the lookup service may answer as data.ip: an address, or nothing.
ServiceAnswers == {Join(<<<<"1">>, <<"1">>, <<"1">>, <<"1">>>>), <<>>}

\* getLocalIpAddress(): the address of an interface, or the default.
LocalAddresses ==
    {Join(<<<<"1">>, <<"1">>, <<"1">>, <<"2", "4", "9">>>>),
     Join(<<<<"1", "2", "7">>, <<"0">>, <<"0">>, <<"1">>>>)}

Choices == {"1", "2", "3", "other"}

InitIP ==
    /\ variant \in Variants
    /\ valid = [n \in Nodes |-> TRUE]
    /\ alive = TRUE
    /\ setups = 1
    /\ cursor = 0
    /\ lcs = [n \in Nodes |-> EmptyBag]
    /\ sched = [n \in Nodes |-> 0]
    /\ hbs = [n \in Nodes |-> EmptyBag]
    /\ fails = 0
    /\ restarts = 0
    /\ h = [regReq |-> [n \in Nodes |-> 0],
            regFail |-> [n \in Nodes |-> 0],
            regOk |-> [n \in Nodes |-> FALSE],
            sessOk |-> [n \in Nodes |-> FALSE],
            pingOk |-> [n \in Nodes |-> FALSE],
            regLog |-> [n \in Nodes |-> 0],
            regIps |-> {},
            loops |-> [n \in Nodes |-> 0],
            connLog |-> [by |-> "none", connected |-> FALSE]]
    /\ rf = [st |-> "idle"]
    /\ ipr = [st |-> "choice", via |-> "none", entry |-> <<>>,
              ipAddress |-> <<>>, rejected |-> 0]

\* The answer to the first prompt of fetchIpAddress.
ipChoice(choice) ==
    /\ ipr.st = "choice"
    /\ \/ /\ choice = "1"
          /\ ipr' = [ipr EXCEPT !.st = "manual"]
       \/ /\ choice \in {"2", "other"}
          /\ \E a \in ServiceAnswers :
                ipr' = [ipr EXCEPT !.st = "returned", !.via = "service",
                                   !.ipAddress = a]
       \/ /\ choice = "3"
          /\ \E a \in LocalAddresses :
                ipr' = [ipr EXCEPT !.st = "returned", !.via = "local",
                                   !.ipAddress = a]
    /\ UNCHANGED <<mainVars, rf>>

\* The answer to "Enter your IP address": kept when isValidIP accepts it,
\* otherwise fetchIpAddress calls itself and asks the first question again.
ipManualEntry(entry) ==
    /\ ipr.st = "manual"
    /\ IF isValidIP(entry)
       THEN ipr' = [ipr EXCEPT !.st = "returned", !.via = "manual",
                               !.entry = entry, !.ipAddress = entry]
       ELSE /\ ipr.rejected < MaxRejected
            /\ ipr' = [ipr EXCEPT !.st = "choice", !.rejected = @ + 1]
    /\ UNCHANGED <<mainVars, rf>>

NextIP ==
    \/ \E choice \in Choices : ipChoice(choice)
    \/ \E entry \in ManualEntries : ipManualEntry(entry)

SpecIP == InitIP /\ [][NextIP]_vars

\* ------------------------------------------------------------------ claims
Launched(n) == h.regReq[n] > 0
Heartbeating(n) == sched[n] > 0

C2_InfiniteRetryNeverRaises ==
    rf.inf =>
        /\ rf.st # "thrown"
        /\ rf.st = "waiting" => ~attemptOk(rf.last)
        /\ rf.st = "returned" => attemptOk(rf.last)

\* C2 witness: an infinite-retry call has failed more often than the
\* argument `retries` allows a bounded call, and it is fetching again.
C2_Witness ==
    /\ rf.inf /\ rf.st = "fetching"
    /\ rf.failed > rf.max + 1
    /\ rf.attempts = rf.failed + 1

\* C3: retryFetch called with infiniteRetry = false and retries = N sends at
\* most N + 1 requests; it throws exactly when the (N+1)-th attempt has
\* failed, and when attempt k succeeds it returns with k attempts made, the
\* k - 1 before it having failed.
C3_BoundedRetryAttempts ==
    ~rf.inf =>
        /\ rf.attempts <= rf.max + 1
        /\ rf.retries = rf.max + 1 - rf.attempts
        /\ rf.st = "thrown" =>
              rf.attempts = rf.max + 1 /\ rf.failed = rf.max + 1
        /\ rf.st = "waiting" => rf.attempts <= rf.max
        /\ rf.st = "returned" =>
              rf.failed = rf.attempts - 1 /\ attemptOk(rf.last)

\* C3 witness: a call with the default retries = 3 has thrown after its
\* fourth failed attempt.
C3_Witness ==
    /\ ~rf.inf /\ rf.max = DefaultRetries
    /\ rf.st = "thrown" /\ rf.attempts = DefaultRetries + 1

\* C4: the lifecycles are launched fire-and-forget: the orchestrator never
\* waits for an earlier node to reach Heartbeating before it starts a later
\* one, so whenever a valid node has been launched and is still onboarding,
\* every valid node after it in the list has been launched too.
C4_FireAndForget ==
    \A a \in Nodes, b \in Nodes :
        (a < b /\ valid[a] /\ valid[b] /\ Launched(a) /\ ~Heartbeating(a))
            => Launched(b)

\* C5: the scenario of two valid nodes in which the only failures are two
\* failed registration attempts of node A (node 1).  Nothing is logged as a
\* retry for B; once A's registration has succeeded exactly two entries
\* were logged for A; B has been launched whenever A is still retrying; and
\* when every pass has ended both nodes heartbeat.
C5_ScenarioTwoNodes ==
    (/\ valid[1] /\ valid[2] /\ alive /\ restarts = 0
     /\ h.regFail[1] <= 2 /\ fails = h.regFail[1])
        => /\ h.regLog[2] = 0
           /\ (h.regOk[1] /\ h.regFail[1] = 2) => h.regLog[1] = 2
           /\ (h.regFail[1] > 0 /\ ~h.regOk[1]) => Launched(2)
           /\ (/\ h.regFail[1] = 2 /\ Launched(1) /\ setups = 0
               /\ \A n \in Nodes : lcs[n] = EmptyBag)
                  => Heartbeating(1) /\ Heartbeating(2)

\* C6: once a node heartbeats, its schedule keeps firing for ever, whatever
\* its firings return and whatever the other nodes do: the schedule is never
\* lost and the process that runs it never ends.
C6_HeartbeatForever ==
    [][\A n \in Nodes :
          (Heartbeating(n) /\ alive) => (sched'[n] >= sched[n] /\ alive')]_vars

\* C7: a node never has more than one heartbeat schedule, and it has one
\* only while Heartbeating, that is, with no lifecycle pass of its own in
\* progress.
C7_AtMostOneSchedule ==
    \A n \in Nodes :
        valid[n] =>
            /\ sched[n] <= 1
            /\ sched[n] = 1 => lcs[n] = EmptyBag

\* A lifecycle step of node n in which the awaited call raises.
RaisingStep(n) ==
    \E c \in BagToSet(lcs[n]), o \in Outcomes :
        /\ CallResult(c, o) = "raise"
        /\ \/ registerResponse(n, c, o)
           \/ startSessionResponse(n, c, o)
           \/ initialPingResponse(n, c, o)

\* C8: whenever registration, start-session or the initial ping of a node
\* raises, the lifecycle is Failed: it waits the 5-second recovery delay,
\* after which the pass restarts with a new registration.
C8_FailedRecovers ==
    [][\A n \in Nodes :
          RaisingStep(n) =>
              /\ BagIn(recoveryWait, lcs'[n])
              /\ recoveryWait.timer = 5000
              /\ alive']_vars

\* A periodic heartbeat of node n fails for good (pingNode rejects).
FailedHeartbeat(n) ==
    \E c \in BagToSet(hbs[n]), o \in Outcomes :
        CallResult(c, o) = "raise" /\ heartbeatResponse(n, c, o)

\* C9: a failed periodic heartbeat of the processNode version (part_001)
\* goes no further: the process keeps running, no restart of the
\* orchestrator is triggered, no lifecycle pass and no registration is
\* started, and the schedules stay as they are.
C9_HeartbeatFailureContained ==
    [][\A n \in Nodes :
          (variant = "proc" /\ FailedHeartbeat(n)) =>
              /\ alive'
              /\ restarts' = restarts /\ setups' = setups
              /\ lcs' = lcs /\ sched' = sched
              /\ h'.regReq = h.regReq]_vars

\* C10: nodes do not affect each other.  Stated on single runs: what a node
\* B does is decided by the outcomes of B's own calls, and by those alone B
\* runs one pass at a time (a failed pass is replaced by the next one), so a
\* node that has no schedule of its own yet, and therefore no heartbeat
\* that could fail, never has two passes in progress at once.
C10_NodesIndependent ==
    \A a \in Nodes, b \in Nodes :
        (a # b /\ valid[a] /\ valid[b] /\ ~Heartbeating(b))
            => BagCardinality(lcs[b]) <= 1

\* C11: an entry of id.txt that lacks its nodeId or its hardwareId is
\* skipped: no registration, start-session or ping is ever issued for it and
\* it never gets a schedule; and the loop goes on: once it is past such an
\* entry, the next valid entry has been launched.
C11_InvalidEntrySkipped ==
    \A n \in Nodes :
        ~valid[n] =>
            /\ h.regReq[n] = 0
            /\ lcs[n] = EmptyBag /\ hbs[n] = EmptyBag /\ sched[n] = 0
            /\ \A m \in Nodes :
                  (m = NextValid(n + 1) /\ cursor > n) => Launched(m)

\* The fields of a string between its dots.
FieldsOf(s) ==
    LET RECURSIVE F(_, _, _)
        F(i, cur, acc) ==
            IF i > Len(s) THEN Append(acc, cur)
            ELSE IF s[i] = "." THEN F(i + 1, <<>>, Append(acc, cur))
            ELSE F(i + 1, Append(cur, s[i]), acc)
    IN F(1, <<>>, <<>>)

\* The number a string of digits denotes.
Decimal(t) ==
    LET RECURSIVE V(_)
        V(k) == IF k = 0 THEN 0 ELSE 10 * V(k - 1) + DigitVal(t[k])
    IN V(Len(t))

\* Four dot-separated decimal octets, each in 0..255.
DottedQuad(s) ==
    LET fs == FieldsOf(s) IN
    /\ Len(fs) = 4
    /\ \A k \in 1..4 :
          /\ Len(fs[k]) > 0
          /\ \A i \in 1..Len(fs[k]) : IsDigit(fs[k][i])
          /\ Decimal(fs[k]) <= 255

\* C12: an address that fetchIpAddress returns from the manual option is a
\* dotted quad of octets in 0..255 and is the text that was entered; an
\* entry that is not one is never returned: the resolver asks again.
C12_ManualIpValidated ==
    /\ (ipr.st = "returned" /\ ipr.via = "manual")
          => (DottedQuad(ipr.ipAddress) /\ ipr.ipAddress = ipr.entry)
    /\ (ipr.st \in {"choice", "manual"} /\ ipr.rejected > 0)
          => (ipr.ipAddress = <<>> /\ ipr.via = "none")

\* C12 witness: "999.1.1.1"-like entries were rejected, the question was
\* asked again, and then an address with an octet 255 was entered and
\* returned.
C12_Witness ==
    /\ ipr.st = "returned" /\ ipr.via = "manual" /\ ipr.rejected = MaxRejected
    /\ \E k \in 1..4 : FieldsOf(ipr.ipAddress)[k] = <<"2", "5", "5">>

\* C13: one ipAddress serves every node for the whole life of the process:
\* every registration request sent so far carried the same address, and
\* every lifecycle pass in progress, whichever runAll started it, holds
\* that same address.
C13_OneSharedAddress ==
    /\ Cardinality(h.regIps) <= 1
    /\ \A n \in Nodes, m \in Nodes :
          \A c \in BagToSet(lcs[n]), d \in BagToSet(lcs[m]) : c.ip = d.ip
    /\ \A n \in Nodes : \A c \in BagToSet(lcs[n]) : h.regIps \subseteq {c.ip}

\* C14: a failure outside every lifecycle's recovery boundary, such as a
\* failure of the setup phase of runAll, restarts the orchestrator from
\* scratch: the process keeps running and a runAll is again in its setup
\* phase, which will launch every configured node.
C14_SetupFailureRestarts ==
    [][runAllSetupFail => (alive' /\ setups' >= setups /\ setups' > 0)]_vars

\* C15: no failure of a node's own calls ends the process: after a raising
\* registration, start-session or initial ping, and after a failed periodic
\* heartbeat, the process still runs and every other node keeps the passes
\* and the schedules it had.
C15_NodeFailureNeverExits ==
    [][\A n \in Nodes :
          (RaisingStep(n) \/ FailedHeartbeat(n)) =>
              /\ alive'
              /\ \A m \in Nodes \ {n} :
                    /\ sched'[m] >= sched[m]
                    /\ lcs[m] \sqsubseteq lcs'[m]]_vars

\* The passes of a bag that are at step pc.
PcCount(b, pc) ==
    BagCardinality([c \in {d \in BagToSet(b) : d.pc = pc} |-> b[c]])

C17_InitialPingSingleAttempt ==
    [][\A n \in Nodes :
          \A c \in BagToSet(lcs[n]), o \in Outcomes :
              (CallResult(c, o) # "ok" /\ initialPingResponse(n, c, o)) =>
                  /\ PcCount(lcs'[n], "ping") < PcCount(lcs[n], "ping")
                  /\ PcCount(lcs'[n], "register") + PcCount(lcs'[n], "recover")
                        > PcCount(lcs[n], "register")
                            + PcCount(lcs[n], "recover")]_vars

\* C18: the step Unregistered -> Registered depends on transport and HTTP
\* status alone: when the answer to a registration arrives, the node goes on
\* to start-session exactly when a response with a 2xx status was received,
\* whatever its body.
C18_RegistrationBlockedByHttpOnly ==
    [][\A n \in Nodes :
          \A c \in BagToSet(lcs[n]), o \in Outcomes :
              registerResponse(n, c, o) =>
                  ((PcCount(lcs'[n], "session") > PcCount(lcs[n], "session"))
                      <=> (~FetchRejects(o) /\ ResponseOk(o)))]_vars

\* C19: overlapping heartbeats are not prevented: nothing skips a firing
\* while an earlier ping of the same node is still in flight or waiting to
\* be retried, so a node that has a schedule can always start another ping
\* (up to the number of pings the model keeps in flight).
C19_OverlappingHeartbeats ==
    \A n \in Nodes :
        (alive /\ sched[n] > 0 /\ InFlight < MaxInFlight)
            => ENABLED heartbeatTimer(n)

\* C19 witness: a node with a single schedule has two heartbeat calls
\* pending at the same time.
C19_Witness ==
    \E n \in Nodes :
        alive /\ sched[n] = 1 /\ BagCardinality(hbs[n]) = 2

\* C20: nothing is ever cancelled: the number of schedules of a node never
\* goes down, a node that was launched stays launched, and a pass in
\* progress goes away only by its own end: its initial ping succeeded and
\* it created the schedule, or (bless.js, which has no recovery loop) its
\* own call raised.
C20_NoCancellation ==
    [][\A n \in Nodes :
          /\ sched'[n] >= sched[n]
          /\ h'.regReq[n] >= h.regReq[n]
          /\ BagCardinality(lcs'[n]) < BagCardinality(lcs[n]) =>
                \/ \E c \in BagToSet(lcs[n]), o \in Outcomes :
                      /\ CallResult(c, o) = "ok"
                      /\ initialPingResponse(n, c, o)
                \/ variant = "plain" /\ RaisingStep(n)]_vars

\* C20 witness: after a failed heartbeat and the restart of runAll that
\* followed, the old schedule of a node is still there next to the new one.
C20_Witness ==
    \E n \in Nodes :
        alive /\ restarts >= 1 /\ sched[n] >= 2 /\ h.regReq[n] >= 2

C22_OneSchedulePerLoop ==
    /\ [](\A n \in Nodes :
             sched[n] + BagCardinality(lcs[n]) <= h.loops[n])
    /\ [][\A n \in Nodes :
             /\ sched'[n] <= sched[n] + 1
             /\ sched'[n] > sched[n] =>
                   /\ PcCount(lcs'[n], "ping") = PcCount(lcs[n], "ping") - 1
                   /\ BagCardinality(lcs'[n]) = BagCardinality(lcs[n]) - 1
                   /\ h'.pingOk[n]
             /\ RaisingStep(n) => sched'[n] = sched[n]]_vars

\* C22 witness: two passes of a node failed and created nothing, the third
\* one created the node's only schedule and ended the loop.
C22_Witness ==
    \E n \in Nodes :
        /\ h.loops[n] = 1 /\ h.regReq[n] >= 3
        /\ sched[n] = 1 /\ lcs[n] = EmptyBag

\* C23: in bless.js, which has no retryFetch and no recovery loop, a valid
\* node gets at most one registration request, at most one start-session
\* and at most one initial ping in the whole run.  A node whose onboarding
\* raised is left for good and never gets a schedule, and the loop goes on
\* in list order: every valid entry before the loop position has been
\* launched, none after it has, and a raising step moves the loop to the
\* next valid entry and sends its registration.
C23_PlainSingleAttempt ==
    /\ [](variant = "plain" =>
             \A n \in Nodes :
                 /\ h.regReq[n] <= 1 /\ h.loops[n] <= 1
                 /\ BagCardinality(lcs[n]) <= 1
                 /\ (lcs[n] # EmptyBag) <=> (cursor = n)
                 /\ (valid[n] /\ cursor > n) => Launched(n)
                 /\ (cursor < n \/ ~valid[n]) => ~Launched(n)
                 /\ (Launched(n) /\ cursor > n /\ ~h.pingOk[n]) => sched[n] = 0)
    /\ [][variant = "plain" =>
             \A n \in Nodes :
                 /\ PcCount(lcs'[n], "session") > PcCount(lcs[n], "session")
                       => (~h.regOk[n] /\ h'.regOk[n])
                 /\ PcCount(lcs'[n], "ping") > PcCount(lcs[n], "ping")
                       => (~h.sessOk[n] /\ h'.sessOk[n])
                 /\ RaisingStep(n) =>
                       /\ alive' /\ lcs'[n] = EmptyBag /\ sched'[n] = 0
                       /\ cursor' = NextValid(n + 1)
                       /\ \A m \in Nodes :
                             m = cursor' =>
                                 /\ lcs'[m] = SetToBag({registerCall})
                                 /\ h'.regReq[m] = 1]_vars

\* C23 witness: in bless.js the first node's onboarding raised and it was
\* left without a schedule, and the second node, processed after it,
\* heartbeats.
C23_Witness ==
    /\ variant = "plain" /\ valid[1] /\ valid[2] /\ alive
    /\ h.regReq[1] = 1 /\ ~h.pingOk[1] /\ sched[1] = 0 /\ lcs[1] = EmptyBag
    /\ h.regReq[2] = 1 /\ sched[2] = 1 /\ cursor = NumNodes + 1

=============================================================================
